---- MODULE Spec2Model ----
(***************************************************************************)
(* Model of the kenno-api password handlers: the Express routes of         *)
(* api/index.ts, the serverless reset handlers and the serverless login    *)
(* handler, all working on one HubDB row through lookup and patch calls.   *)
(* The routes of server.js answer from a fixed test credential and never   *)
(* call the store; they have no state and are not part of the model.       *)
(*                                                                         *)
(* A text (password, digest, stored value) is a sequence of character      *)
(* codes.  A 32-bit integer is a pair <<hi, lo>> of 16-bit halves, so that *)
(* the wraparound of the hash is computed and not assumed.                 *)
(***************************************************************************)
EXTENDS Integers, Sequences, FiniteSets, TLC

VARIABLES rows, req, started, lastWrite, migrationFailures, failedReset, form, flow

vars == <<rows, req, started, lastWrite, migrationFailures, failedReset, form, flow>>

(***************************************************************************)
(* Bounds                                                                  *)
(***************************************************************************)
\* the number of requests the clients send in one behaviour
MaxRequests == 2

\* the requests that can be in flight at the same time
Slots == {1, 2}

(***************************************************************************)
(* 32-bit arithmetic on halves                                             *)
(***************************************************************************)
Half == 2^16

\* ToInt32(31 * h + c): (hash << 5) - hash + char, then hash & hash
Step31(h, c) ==
    LET lo == h[2] * 31 + c
        hi == h[1] * 31 + (lo \div Half)
    IN  <<hi % Half, lo % Half>>

\* the sign bit of the 32-bit value
IsNegative(h) == h[1] >= 32768

\* the magnitude of the signed 32-bit value, as an unsigned 32-bit value
\* (Math.abs; the magnitude of -2^31 is 2^31)
Magnitude(h) ==
    IF IsNegative(h)
    THEN <<(65535 - h[1] + (IF h[2] = 0 THEN 1 ELSE 0)) % Half, (Half - h[2]) % Half>>
    ELSE h

\* the fold of hashPassword over the characters of the password
RECURSIVE HashFold(_, _, _)
HashFold(password, i, hash) ==
    IF i > Len(password) THEN hash
    ELSE HashFold(password, i + 1, Step31(hash, password[i]))

(***************************************************************************)
(* Number.prototype.toString                                               *)
(***************************************************************************)
\* the character code of one digit: '0'..'9' then 'a'..'f'
DigitChar(d) == IF d < 10 THEN 48 + d ELSE 87 + d

\* the digits of n (below 65536) in the radix, most significant first,
\* without leading zeros; the empty text for 0
RECURSIVE HalfDigits(_, _)
HalfDigits(n, radix) ==
    IF n = 0 THEN <<>>
    ELSE Append(HalfDigits(n \div radix, radix), DigitChar(n % radix))

\* the four hexadecimal digits of a half, leading zeros kept
Hex4(n) ==
    <<DigitChar(n \div 4096), DigitChar((n \div 256) % 16),
      DigitChar((n \div 16) % 16), DigitChar(n % 16)>>

\* toString(16) of an unsigned 32-bit value
ToHex(u) ==
    IF u[1] = 0
    THEN (IF u[2] = 0 THEN <<48>> ELSE HalfDigits(u[2], 16))
    ELSE HalfDigits(u[1], 16) \o Hex4(u[2])

\* u divided by 10, and the remainder, by long division on the halves
DivTen(u) ==
    LET r1 == u[1] % 10
        lo == r1 * Half + u[2]
    IN  [quot |-> <<u[1] \div 10, lo \div 10>>, rem |-> lo % 10]

\* the decimal digits of an unsigned 32-bit value, the empty text for 0
RECURSIVE DecDigits(_)
DecDigits(u) ==
    IF u = <<0, 0>> THEN <<>>
    ELSE Append(DecDigits(DivTen(u).quot), DigitChar(DivTen(u).rem))

\* toString() of a signed 32-bit value: a minus sign, then the magnitude
ToDecimal(h) ==
    IF h = <<0, 0>> THEN <<48>>
    ELSE (IF IsNegative(h) THEN <<45>> ELSE <<>>) \o DecDigits(Magnitude(h))

(***************************************************************************)
(* hashPassword                                                            *)
(***************************************************************************)
\* api/index.ts, the serverless login and reset handlers, server.js
hashPassword(password) == ToHex(Magnitude(HashFold(password, 1, <<0, 0>>)))

\* api/auth/reset-password.js: the signed value in decimal
hashPasswordDecimal(password) == ToDecimal(HashFold(password, 1, <<0, 0>>))


(***************************************************************************)
(* Texts and inputs                                                        *)
(***************************************************************************)
\* an absent (undefined) or empty field of the body: !field is true
Empty == <<>>

\* "oldpassword123", the test password of server.js and test-server.js
OldPassword == <<111, 108, 100, 112, 97, 115, 115, 119, 111, 114, 100, 49, 50, 51>>

\* "newpassword123", the new password of test-server.js
NewPassword == <<110, 101, 119, 112, 97, 115, 115, 119, 111, 114, 100, 49, 50, 51>>

\* "wrong": a wrong old password, and a new password of fewer than 8 characters
Wrong == <<119, 114, 111, 110, 103>>

\* the email of the one row of the table, and an email without a row
RowEmail == "test@example.com"

OtherEmail == "nobody@example.com"


\* the passwords a client presents as old, current or login password
OldInputs == {OldPassword, Wrong, hashPassword(OldPassword)}

\* the passwords a client presents as new password
NewInputs == {NewPassword, Wrong}

\* the bodies of the reset and change requests: for the email of the row
\* every old and new password, one body for the email without a row, and
\* one body for each absent field
ResetBodies ==
    [email : {RowEmail}, old : OldInputs, new : NewInputs]
    \cup {[email |-> OtherEmail, old |-> OldPassword, new |-> NewPassword],
          [email |-> "", old |-> OldPassword, new |-> NewPassword],
          [email |-> RowEmail, old |-> Empty, new |-> NewPassword],
          [email |-> RowEmail, old |-> OldPassword, new |-> Empty]}

\* the bodies sent to the reset handler that reads no old password
AuthResetBodies ==
    [email : {RowEmail}, old : {Empty, Wrong}, new : NewInputs \cup {OldPassword}]
    \cup {[email |-> OtherEmail, old |-> Empty, new |-> NewPassword],
          [email |-> "", old |-> Empty, new |-> NewPassword],
          [email |-> RowEmail, old |-> Empty, new |-> Empty]}

\* the bodies of the login requests
LoginBodies ==
    [email : {RowEmail}, old : OldInputs, new : {Empty}]
    \cup {[email |-> OtherEmail, old |-> OldPassword, new |-> Empty],
          [email |-> "", old |-> OldPassword, new |-> Empty],
          [email |-> RowEmail, old |-> Empty, new |-> Empty]}

\* the values the password column holds before the first request:
\* the legacy plaintext or its digest
InitialStored == {OldPassword, hashPassword(OldPassword)}

RowIds == {"1"}

\* getUserByEmail's null
Null == [found |-> FALSE, id |-> "", email |-> "", name |-> "", password |-> Empty]

Handlers == {"indexReset", "indexChange", "serverlessReset", "authReset", "login"}

\* a slot that holds no request
Idle ==
    [handler |-> "none", method |-> "POST", pc |-> "idle",
     email |-> "", oldPassword |-> Empty, newPassword |-> Empty,
     user |-> Null, path |-> "none", patch |-> [id |-> "", password |-> Empty],
     lookups |-> 0, lookupFailed |-> FALSE, writes |-> 0, writeFailed |-> FALSE,
     responses |-> 0, status |-> 0, text |-> ""]

\* the entry point and the body of request q
Body(q) ==
    [handler |-> q.handler, email |-> q.email,
     oldPassword |-> q.oldPassword, newPassword |-> q.newPassword]

\* no password write has failed
NoReset == Body(Idle)

(***************************************************************************)
(* The store: the rows of the HubDB table                                  *)
(***************************************************************************)
\* rows.find(...) of api/index.ts, results[0] of the serverless handlers.
\* The serverless login and reset read the draft rows and then the published
\* rows and patch the draft row; the table is held here in one version, the
\* one every handler reads and patches.
getUserByEmail(email) ==
    IF \E id \in RowIds : rows[id].email = email
    THEN LET id == CHOOSE i \in RowIds : rows[i].email = email
         IN  [found |-> TRUE, id |-> id, email |-> rows[id].email,
              name |-> rows[id].name, password |-> rows[id].password]
    ELSE Null

\* a patch that the store acknowledges and loses
PatchRowLost(id, password) == rows

\* an update that replaces the row by the values it carries
PatchRowReplace(id, password) ==
    [rows EXCEPT ![id] = [email |-> "", name |-> "", password |-> password]]

\* a store in which writing the value a row already holds changes the row
PatchRowTwiceDiffers(id, password) ==
    IF rows[id].password = password
    THEN [rows EXCEPT ![id] = [@ EXCEPT !.password = hashPassword(password)]]
    ELSE [rows EXCEPT ![id] = [@ EXCEPT !.password = password]]

\* a store in which the first change of a row wins over the later ones
PatchRowFirstWins(id, password) ==
    IF rows[id].password \in InitialStored
    THEN [rows EXCEPT ![id] = [@ EXCEPT !.password = password]]
    ELSE rows

\* axios.patch(.../rows/<id>, {values: {password}}): only the password column
PatchRow(id, password) ==
    [rows EXCEPT ![id] = [@ EXCEPT !.password = password]]

(***************************************************************************)
(* Verification of a presented password against the stored value          *)
(***************************************************************************)
\* a verification without the comparison with the plaintext
VerifyHashedOnly(stored, presented) ==
    IF stored = hashPassword(presented) THEN "hashed" ELSE "rejected"

\* a verification that never rejects
VerifyNoReject(stored, presented) ==
    IF stored = hashPassword(presented) THEN "hashed" ELSE "plain"

\* the two nested comparisons of every verifying handler
Verify(stored, presented) ==
    IF stored = hashPassword(presented) THEN "hashed"
    ELSE IF stored = presented THEN "plain"
    ELSE "rejected"

(***************************************************************************)
(* The patches the handlers issue                                          *)
(***************************************************************************)
\* a reset that stores the new password unhashed
ResetPatchPlain(user, newPassword) ==
    [id |-> user.id, password |-> newPassword]

\* updateUser(user.id, {password: hashedNewPassword}) of the handlers that
\* verify the old password
ResetPatch(user, newPassword) ==
    [id |-> user.id, password |-> hashPassword(newPassword)]

\* updateUser(user.id, {password: hashedPassword}) of api/auth/reset-password.js
AuthResetPatch(user, newPassword) ==
    [id |-> user.id, password |-> hashPasswordDecimal(newPassword)]

\* a write-back of the presented password itself
LoginPatchPlain(user, password) ==
    [id |-> user.id, password |-> password]

\* the login's patch {values: {password: hashedPassword}} of the row it read
LoginPatch(user, password) ==
    [id |-> user.id, password |-> hashPassword(password)]

(***************************************************************************)
(* Steps shared by the handlers' actions                                   *)
(***************************************************************************)
\* a request is in flight from its lookup to its answer
InFlight(r) == req[r].pc \in {"lookup", "write"}

\* a new request takes the first slot that holds no request in flight
CanReceive(r) ==
    /\ started < MaxRequests
    /\ ~InFlight(r)
    /\ \A s \in Slots : s < r => InFlight(s)

\* a new request in slot r
Fresh(h, email, old, new) ==
    [Idle EXCEPT !.handler = h,
                 !.email = email, !.oldPassword = old, !.newPassword = new]

\* res.status(status).json({error or message: text})
Answer(q, status, text) ==
    [q EXCEPT !.pc = "done", !.responses = @ + 1, !.status = status, !.text = text]

\* the message of the error axios throws when a store call fails
StoreError == "Request failed with status code 500"

\* an error response that passes the caught error on to the client
ErrorResponseLeak(q, error, status, text) == Answer(q, status, error)

\* the response after a catch: the error is written to the log, the response
\* carries the handler's literal
ErrorResponse(q, error, status, text) == Answer(q, status, text)

(***************************************************************************)
(* client-reset-password.js: KennoPasswordResetClient                      *)
(***************************************************************************)
\* the reset tokens a user can enter or a link can carry
Tokens == {"t1", "t2"}

\* null, or the empty value of an input field
NoToken == ""

\* what a fetch of one of the three token endpoints can come to: fetch
\* rejects, response.json() rejects, the status is not ok, the status is ok
FetchOutcomes == {"networkError", "badBody", "notOk", "ok"}

\* a promise that has not settled
Unsettled == [settled |-> "no", success |-> FALSE, message |-> ""]

\* what the try block of a client method returns, and the object its catch
\* block returns when the try block threw
Resolved(outcome, done, failed) ==
    IF outcome = "ok"
    THEN [settled |-> "resolved", success |-> TRUE, message |-> done]
    ELSE [settled |-> "resolved", success |-> FALSE, message |-> failed]

requestPasswordReset(outcome) ==
    Resolved(outcome, "Password reset email sent successfully",
             "Failed to request password reset")

verifyResetToken(outcome) ==
    Resolved(outcome, "Token is valid", "Failed to verify reset token")

confirmPasswordReset(outcome) ==
    Resolved(outcome, "Password reset successfully", "Failed to reset password")

\* the catch block of completePasswordReset, for an awaited call that rejected
FlowCaught == [settled |-> "resolved", success |-> FALSE,
               message |-> "Failed to complete password reset"]

\* no call of completePasswordReset has been made
NoFlow ==
    [pc |-> "idle", token |-> NoToken, verifySent |-> FALSE, confirmSent |-> FALSE,
     verifyResult |-> Unsettled, result |-> Unsettled]

\* completePasswordReset(email, token, newPassword) is called: the verify
\* request goes out
CompleteStart ==
    /\ flow.pc = "idle"
    /\ \E token \in Tokens :
        flow' = [flow EXCEPT !.pc = "verify", !.token = token, !.verifySent = TRUE]
    /\ UNCHANGED <<rows, req, started, lastWrite, migrationFailures, failedReset, form>>

\* a completePasswordReset that confirms whatever the verification says
CompleteVerifyReturnsAnyway ==
    /\ flow.pc = "verify"
    /\ \E outcome \in FetchOutcomes :
        LET verifyResult == verifyResetToken(outcome)
        IN  flow' = [flow EXCEPT !.verifyResult = verifyResult,
                                 !.pc = "confirm", !.confirmSent = TRUE]
    /\ UNCHANGED <<rows, req, started, lastWrite, migrationFailures, failedReset, form>>

\* the verification settles: a failed result is returned as it is, a
\* success sends the confirm request
CompleteVerifyReturns ==
    /\ flow.pc = "verify"
    /\ \E outcome \in FetchOutcomes :
        LET verifyResult == verifyResetToken(outcome)
        IN  flow' =
              IF verifyResult.settled = "rejected"
              THEN [flow EXCEPT !.verifyResult = verifyResult,
                                !.pc = "returned", !.result = FlowCaught]
              ELSE IF ~verifyResult.success
              THEN [flow EXCEPT !.verifyResult = verifyResult,
                                !.pc = "returned", !.result = verifyResult]
              ELSE [flow EXCEPT !.verifyResult = verifyResult,
                                !.pc = "confirm", !.confirmSent = TRUE]
    /\ UNCHANGED <<rows, req, started, lastWrite, migrationFailures, failedReset, form>>

\* the confirmation settles and its result is returned
CompleteConfirmReturns ==
    /\ flow.pc = "confirm"
    /\ \E outcome \in FetchOutcomes :
        LET confirmResult == confirmPasswordReset(outcome)
        IN  flow' = [flow EXCEPT !.pc = "returned",
                                 !.result = IF confirmResult.settled = "rejected"
                                            THEN FlowCaught ELSE confirmResult]
    /\ UNCHANGED <<rows, req, started, lastWrite, migrationFailures, failedReset, form>>

\* the caller calls completePasswordReset again
CompleteAgain ==
    /\ flow.pc = "returned"
    /\ flow' = NoFlow
    /\ UNCHANGED <<rows, req, started, lastWrite, migrationFailures, failedReset, form>>

(***************************************************************************)
(* client-reset-password.js: KennoPasswordResetForm                        *)
(***************************************************************************)
\* the page before DOMContentLoaded; verified is the set of tokens for
\* which verifyResetToken has returned success to the form
NoForm ==
    [loaded |-> FALSE, url |-> NoToken,
     currentStep |-> "request", resetToken |-> NoToken, userEmail |-> "",
     requestEmail |-> "", verifyToken |-> NoToken, confirming |-> FALSE,
     confirmToken |-> NoToken, message |-> "", redirect |-> FALSE, verified |-> {}]

\* render(): the container gets the form of the step, without a message
Render(f, step) == [f EXCEPT !.currentStep = step, !.message = ""]

\* the DOMContentLoaded listener: a form in step request and, when the URL
\* carries a token, a second form on the same container put in step confirm
DOMContentLoaded ==
    /\ ~form.loaded
    /\ form' = IF form.url # NoToken
               THEN Render([form EXCEPT !.loaded = TRUE, !.resetToken = form.url], "confirm")
               ELSE Render([form EXCEPT !.loaded = TRUE], "request")
    /\ UNCHANGED <<rows, req, started, lastWrite, migrationFailures, failedReset, flow>>

\* the request form is submitted; the button is disabled while the request
\* is awaited
handleRequestSubmit ==
    /\ form.loaded /\ form.currentStep = "request" /\ form.requestEmail = ""
    /\ \E email \in {"", RowEmail, OtherEmail} :
        form' = IF email = ""
                THEN [form EXCEPT !.message = "Please enter your email address"]
                ELSE [form EXCEPT !.message = "Sending reset link...", !.requestEmail = email]
    /\ UNCHANGED <<rows, req, started, lastWrite, migrationFailures, failedReset, flow>>

\* requestPasswordReset settles
RequestReturns ==
    /\ form.requestEmail # ""
    /\ \E outcome \in FetchOutcomes :
        LET result == requestPasswordReset(outcome)
            f      == [form EXCEPT !.requestEmail = ""]
        IN  form' = IF result.settled = "rejected"
                    THEN [f EXCEPT !.message = "An error occurred. Please try again."]
                    ELSE IF result.success
                    THEN Render([f EXCEPT !.userEmail = form.requestEmail], "verify")
                    ELSE [f EXCEPT !.message = result.message]
    /\ UNCHANGED <<rows, req, started, lastWrite, migrationFailures, failedReset, flow>>

\* the token form is submitted
handleVerifySubmit ==
    /\ form.loaded /\ form.currentStep = "verify" /\ form.verifyToken = NoToken
    /\ \E token \in Tokens \cup {NoToken} :
        form' = IF token = NoToken
                THEN [form EXCEPT !.message = "Please enter the reset token"]
                ELSE [form EXCEPT !.message = "Verifying token...", !.verifyToken = token]
    /\ UNCHANGED <<rows, req, started, lastWrite, migrationFailures, failedReset, flow>>

\* verifyResetToken settles
VerifyReturns ==
    /\ form.verifyToken # NoToken
    /\ \E outcome \in FetchOutcomes :
        LET result == verifyResetToken(outcome)
            f      == [form EXCEPT !.verifyToken = NoToken]
        IN  form' = IF result.settled = "rejected"
                    THEN [f EXCEPT !.message = "An error occurred. Please try again."]
                    ELSE IF result.success
                    THEN Render([f EXCEPT !.resetToken = form.verifyToken,
                                          !.verified = @ \cup {form.verifyToken}], "confirm")
                    ELSE [f EXCEPT !.message = result.message]
    /\ UNCHANGED <<rows, req, started, lastWrite, migrationFailures, failedReset, flow>>

\* the click on back-to-request, a button of the token form
BackToRequest ==
    /\ form.loaded /\ form.currentStep = "verify"
    /\ form' = Render(form, "request")
    /\ UNCHANGED <<rows, req, started, lastWrite, migrationFailures, failedReset, flow>>

\* the new-password form is submitted; the confirm request carries resetToken
handleConfirmSubmit ==
    /\ form.loaded /\ form.currentStep = "confirm" /\ ~form.confirming
    /\ \E newPassword, confirmPassword \in {Empty, NewPassword, Wrong} :
        form' = IF newPassword = Empty \/ confirmPassword = Empty
                THEN [form EXCEPT !.message = "Please fill in all fields"]
                ELSE IF newPassword # confirmPassword
                THEN [form EXCEPT !.message = "Passwords do not match"]
                ELSE IF Len(newPassword) < 8
                THEN [form EXCEPT !.message = "Password must be at least 8 characters long"]
                ELSE [form EXCEPT !.message = "Resetting password...", !.confirming = TRUE,
                                  !.confirmToken = form.resetToken]
    /\ UNCHANGED <<rows, req, started, lastWrite, migrationFailures, failedReset, flow>>

\* confirmPasswordReset settles; a success starts the redirect to /login
ConfirmReturns ==
    /\ form.confirming
    /\ \E outcome \in FetchOutcomes :
        LET result == confirmPasswordReset(outcome)
            f      == [form EXCEPT !.confirming = FALSE]
        IN  form' = IF result.settled = "rejected"
                    THEN [f EXCEPT !.message = "An error occurred. Please try again."]
                    ELSE IF result.success
                    THEN [f EXCEPT !.redirect = TRUE,
                                   !.message = "Password reset successfully! You can now login with your new password."]
                    ELSE [f EXCEPT !.message = result.message]
    /\ UNCHANGED <<rows, req, started, lastWrite, migrationFailures, failedReset, flow>>

Init ==
    /\ rows \in [RowIds -> [email : {RowEmail}, name : {"Test User"}, password : InitialStored]]
    /\ req = [r \in Slots |-> Idle]
    /\ started = 0
    /\ lastWrite = 0
    /\ migrationFailures = 0
    /\ failedReset = NoReset
    /\ form = NoForm
    /\ flow = NoFlow

(***************************************************************************)
(* api/index.ts: POST /api/auth/reset-password                             *)
(***************************************************************************)
\* the body is read and validated; a valid request issues the lookup
IndexResetReceive(r) ==
    /\ CanReceive(r)
    /\ \E b \in ResetBodies :
        LET q == Fresh("indexReset", b.email, b.old, b.new)
        IN  req' = [req EXCEPT ![r] =
                IF b.email = "" \/ b.old = Empty \/ b.new = Empty
                THEN Answer(q, 400, "Email, old password, and new password are required")
                ELSE IF Len(b.new) < 8
                THEN Answer(q, 400, "Password must be at least 8 characters long")
                ELSE [q EXCEPT !.pc = "lookup"]]
    /\ started' = started + 1
    /\ UNCHANGED <<rows, lastWrite, migrationFailures, failedReset, form, flow>>

\* getUserByEmail returns or throws; the old password is verified and the
\* patch of the new digest is issued
IndexResetLookup(r) ==
    /\ req[r].handler = "indexReset" /\ req[r].pc = "lookup"
    /\ \E ok \in BOOLEAN :
        LET q    == [req[r] EXCEPT !.lookups = @ + 1, !.lookupFailed = ~ok]
            user == getUserByEmail(q.email)
            path == Verify(user.password, q.oldPassword)
        IN  req' = [req EXCEPT ![r] =
                IF ~ok THEN ErrorResponse(q, StoreError, 500, "Internal server error")
                ELSE IF ~user.found
                THEN Answer([q EXCEPT !.user = user], 400, "User not found")
                ELSE IF path = "rejected"
                THEN Answer([q EXCEPT !.user = user, !.path = path], 400, "Invalid old password")
                ELSE [q EXCEPT !.user = user, !.path = path, !.pc = "write", !.writes = @ + 1,
                               !.patch = ResetPatch(user, q.newPassword)]]
    /\ UNCHANGED <<rows, started, lastWrite, migrationFailures, failedReset, form, flow>>

\* updateUser returns or throws; its result is not looked at
IndexResetWrite(r) ==
    /\ req[r].handler = "indexReset" /\ req[r].pc = "write"
    /\ \E ok \in BOOLEAN :
        IF ok
        THEN /\ rows' = PatchRow(req[r].patch.id, req[r].patch.password)
             /\ lastWrite' = r
             /\ req' = [req EXCEPT ![r] = Answer(@, 200, "Password reset successfully")]
             /\ UNCHANGED failedReset
        ELSE /\ req' = [req EXCEPT ![r] =
                    ErrorResponse([@ EXCEPT !.writeFailed = TRUE], StoreError, 500,
                                  "Internal server error")]
             /\ failedReset' = Body(req[r])
             /\ UNCHANGED <<rows, lastWrite>>
    /\ UNCHANGED <<started, migrationFailures, form, flow>>

(***************************************************************************)
(* api/index.ts: POST /api/auth/change-password                            *)
(***************************************************************************)
IndexChangeReceive(r) ==
    /\ CanReceive(r)
    /\ \E b \in ResetBodies :
        LET q == Fresh("indexChange", b.email, b.old, b.new)
        IN  req' = [req EXCEPT ![r] =
                IF b.email = "" \/ b.old = Empty \/ b.new = Empty
                THEN Answer(q, 400, "Email, current password, and new password are required")
                ELSE IF Len(b.new) < 8
                THEN Answer(q, 400, "Password must be at least 8 characters long")
                ELSE [q EXCEPT !.pc = "lookup"]]
    /\ started' = started + 1
    /\ UNCHANGED <<rows, lastWrite, migrationFailures, failedReset, form, flow>>

IndexChangeLookup(r) ==
    /\ req[r].handler = "indexChange" /\ req[r].pc = "lookup"
    /\ \E ok \in BOOLEAN :
        LET q    == [req[r] EXCEPT !.lookups = @ + 1, !.lookupFailed = ~ok]
            user == getUserByEmail(q.email)
            path == Verify(user.password, q.oldPassword)
        IN  req' = [req EXCEPT ![r] =
                IF ~ok THEN ErrorResponse(q, StoreError, 500, "Internal server error")
                ELSE IF ~user.found
                THEN Answer([q EXCEPT !.user = user], 400, "User not found")
                ELSE IF path = "rejected"
                THEN Answer([q EXCEPT !.user = user, !.path = path], 400, "Invalid current password")
                ELSE [q EXCEPT !.user = user, !.path = path, !.pc = "write", !.writes = @ + 1,
                               !.patch = ResetPatch(user, q.newPassword)]]
    /\ UNCHANGED <<rows, started, lastWrite, migrationFailures, failedReset, form, flow>>

IndexChangeWrite(r) ==
    /\ req[r].handler = "indexChange" /\ req[r].pc = "write"
    /\ \E ok \in BOOLEAN :
        IF ok
        THEN /\ rows' = PatchRow(req[r].patch.id, req[r].patch.password)
             /\ lastWrite' = r
             /\ req' = [req EXCEPT ![r] = Answer(@, 200, "Password changed successfully")]
             /\ UNCHANGED failedReset
        ELSE /\ req' = [req EXCEPT ![r] =
                    ErrorResponse([@ EXCEPT !.writeFailed = TRUE], StoreError, 500,
                                  "Internal server error")]
             /\ failedReset' = Body(req[r])
             /\ UNCHANGED <<rows, lastWrite>>
    /\ UNCHANGED <<started, migrationFailures, form, flow>>

(***************************************************************************)
(* The serverless handlers: the method check before the body is read       *)
(***************************************************************************)
Methods == {"POST", "GET", "OPTIONS"}

\* res.status(200).end() for OPTIONS, 405 for any other method but POST
MethodAnswer(q, method) ==
    IF method = "OPTIONS" THEN Answer([q EXCEPT !.method = method], 200, "")
    ELSE Answer([q EXCEPT !.method = method], 405, "Method not allowed")

(***************************************************************************)
(* The serverless reset handler with the old password                      *)
(***************************************************************************)
ServerlessResetReceive(r) ==
    /\ CanReceive(r)
    /\ \/ \E method \in Methods \ {"POST"} :
            req' = [req EXCEPT ![r] =
                MethodAnswer(Fresh("serverlessReset", "", Empty, Empty), method)]
       \/ \E b \in ResetBodies :
            LET q == Fresh("serverlessReset", b.email, b.old, b.new)
            IN  req' = [req EXCEPT ![r] =
                    IF b.email = "" \/ b.old = Empty \/ b.new = Empty
                    THEN Answer(q, 400, "Email, current Password, and new Password are required")
                    ELSE [q EXCEPT !.pc = "lookup"]]
    /\ started' = started + 1
    /\ UNCHANGED <<rows, lastWrite, migrationFailures, failedReset, form, flow>>

\* getUserByEmail returns the row, or null when there is none or the call fails
ServerlessResetLookup(r) ==
    /\ req[r].handler = "serverlessReset" /\ req[r].pc = "lookup"
    /\ \E ok \in BOOLEAN :
        LET q    == [req[r] EXCEPT !.lookups = @ + 1, !.lookupFailed = ~ok]
            user == IF ok THEN getUserByEmail(q.email) ELSE Null
            path == Verify(user.password, q.oldPassword)
        IN  req' = [req EXCEPT ![r] =
                IF ~ok
                THEN ErrorResponse([q EXCEPT !.user = user], StoreError, 404, "User not found")
                ELSE IF ~user.found
                THEN Answer([q EXCEPT !.user = user], 404, "User not found")
                ELSE IF path = "rejected"
                THEN Answer([q EXCEPT !.user = user, !.path = path], 400, "Invalid current password")
                ELSE [q EXCEPT !.user = user, !.path = path, !.pc = "write", !.writes = @ + 1,
                               !.patch = ResetPatch(user, q.newPassword)]]
    /\ UNCHANGED <<rows, started, lastWrite, migrationFailures, failedReset, form, flow>>

\* a reset that reports success although its patch failed
ServerlessResetWriteSwallowed(r) ==
    /\ req[r].handler = "serverlessReset" /\ req[r].pc = "write"
    /\ \E success \in BOOLEAN :
        IF success
        THEN /\ rows' = PatchRow(req[r].patch.id, req[r].patch.password)
             /\ lastWrite' = r
             /\ req' = [req EXCEPT ![r] = Answer(@, 200, "Password updated successfully")]
             /\ UNCHANGED failedReset
        ELSE /\ req' = [req EXCEPT ![r] =
                    Answer([@ EXCEPT !.writeFailed = TRUE], 200, "Password updated successfully")]
             /\ failedReset' = Body(req[r])
             /\ UNCHANGED <<rows, lastWrite>>
    /\ UNCHANGED <<started, migrationFailures, form, flow>>

\* updateUser returns true, or false when the patch fails
ServerlessResetWrite(r) ==
    /\ req[r].handler = "serverlessReset" /\ req[r].pc = "write"
    /\ \E success \in BOOLEAN :
        IF success
        THEN /\ rows' = PatchRow(req[r].patch.id, req[r].patch.password)
             /\ lastWrite' = r
             /\ req' = [req EXCEPT ![r] = Answer(@, 200, "Password updated successfully")]
             /\ UNCHANGED failedReset
        ELSE /\ req' = [req EXCEPT ![r] =
                    ErrorResponse([@ EXCEPT !.writeFailed = TRUE], StoreError, 500,
                                  "Failed to update password")]
             /\ failedReset' = Body(req[r])
             /\ UNCHANGED <<rows, lastWrite>>
    /\ UNCHANGED <<started, migrationFailures, form, flow>>

(***************************************************************************)
(* api/auth/reset-password.js: the reset handler without an old password   *)
(***************************************************************************)
\* only email and newPassword are read from the body
AuthResetReceive(r) ==
    /\ CanReceive(r)
    /\ \/ \E method \in Methods \ {"POST"} :
            req' = [req EXCEPT ![r] =
                MethodAnswer(Fresh("authReset", "", Empty, Empty), method)]
       \/ \E b \in AuthResetBodies :
            LET q == Fresh("authReset", b.email, b.old, b.new)
            IN  req' = [req EXCEPT ![r] =
                    IF b.email = "" \/ b.new = Empty
                    THEN Answer(q, 400, "Email and newPassword are required")
                    ELSE [q EXCEPT !.pc = "lookup"]]
    /\ started' = started + 1
    /\ UNCHANGED <<rows, lastWrite, migrationFailures, failedReset, form, flow>>

\* a reset that returns without a response when its patch fails
AuthResetWriteSilent(r) ==
    /\ req[r].handler = "authReset" /\ req[r].pc = "write"
    /\ \E success \in BOOLEAN :
        IF success
        THEN /\ rows' = PatchRow(req[r].patch.id, req[r].patch.password)
             /\ lastWrite' = r
             /\ req' = [req EXCEPT ![r] = Answer(@, 200, "Password updated successfully")]
             /\ UNCHANGED failedReset
        ELSE /\ req' = [req EXCEPT ![r] = [@ EXCEPT !.writeFailed = TRUE, !.pc = "returned"]]
             /\ failedReset' = Body(req[r])
             /\ UNCHANGED <<rows, lastWrite>>
    /\ UNCHANGED <<started, migrationFailures, form, flow>>

AuthResetLookup(r) ==
    /\ req[r].handler = "authReset" /\ req[r].pc = "lookup"
    /\ \E ok \in BOOLEAN :
        LET q    == [req[r] EXCEPT !.lookups = @ + 1, !.lookupFailed = ~ok]
            user == IF ok THEN getUserByEmail(q.email) ELSE Null
        IN  req' = [req EXCEPT ![r] =
                IF ~ok
                THEN ErrorResponse([q EXCEPT !.user = user], StoreError, 404, "User not found")
                ELSE IF ~user.found
                THEN Answer([q EXCEPT !.user = user], 404, "User not found")
                ELSE [q EXCEPT !.user = user, !.pc = "write", !.writes = @ + 1,
                               !.patch = AuthResetPatch(user, q.newPassword)]]
    /\ UNCHANGED <<rows, started, lastWrite, migrationFailures, failedReset, form, flow>>

AuthResetWrite(r) ==
    /\ req[r].handler = "authReset" /\ req[r].pc = "write"
    /\ \E success \in BOOLEAN :
        IF success
        THEN /\ rows' = PatchRow(req[r].patch.id, req[r].patch.password)
             /\ lastWrite' = r
             /\ req' = [req EXCEPT ![r] = Answer(@, 200, "Password updated successfully")]
             /\ UNCHANGED failedReset
        ELSE /\ req' = [req EXCEPT ![r] =
                    ErrorResponse([@ EXCEPT !.writeFailed = TRUE], StoreError, 500,
                                  "Failed to update password")]
             /\ failedReset' = Body(req[r])
             /\ UNCHANGED <<rows, lastWrite>>
    /\ UNCHANGED <<started, migrationFailures, form, flow>>

(***************************************************************************)
(* The serverless login handler                                            *)
(***************************************************************************)
LoginReceive(r) ==
    /\ CanReceive(r)
    /\ \/ \E method \in Methods \ {"POST"} :
            req' = [req EXCEPT ![r] = MethodAnswer(Fresh("login", "", Empty, Empty), method)]
       \/ \E b \in LoginBodies :
            LET q == Fresh("login", b.email, b.old, b.new)
            IN  req' = [req EXCEPT ![r] =
                    IF b.email = "" \/ b.old = Empty
                    THEN Answer(q, 400, "Email and password are required")
                    ELSE [q EXCEPT !.pc = "lookup"]]
    /\ started' = started + 1
    /\ UNCHANGED <<rows, lastWrite, migrationFailures, failedReset, form, flow>>

\* a login that tells an unknown email from a wrong password
LoginLookupReveals(r) ==
    /\ req[r].handler = "login" /\ req[r].pc = "lookup"
    /\ \E ok \in BOOLEAN :
        LET q    == [req[r] EXCEPT !.lookups = @ + 1, !.lookupFailed = ~ok]
            user == IF ok THEN getUserByEmail(q.email) ELSE Null
            path == Verify(user.password, q.oldPassword)
        IN  req' = [req EXCEPT ![r] =
                IF ~ok
                THEN ErrorResponse([q EXCEPT !.user = user], StoreError, 401, "Invalid email or password")
                ELSE IF ~user.found
                THEN Answer([q EXCEPT !.user = user], 404, "User not found")
                ELSE IF path = "rejected"
                THEN Answer([q EXCEPT !.user = user, !.path = path], 401, "Invalid email or password")
                ELSE IF path = "hashed"
                THEN Answer([q EXCEPT !.user = user, !.path = path], 200, "Login successful")
                ELSE [q EXCEPT !.user = user, !.path = path, !.pc = "write", !.writes = @ + 1,
                               !.patch = LoginPatch(user, q.oldPassword)]]
    /\ UNCHANGED <<rows, started, lastWrite, migrationFailures, failedReset, form, flow>>

\* the lookup returns; a hashed match answers at once, a plaintext match
\* issues the patch of the digest of the presented password
LoginLookup(r) ==
    /\ req[r].handler = "login" /\ req[r].pc = "lookup"
    /\ \E ok \in BOOLEAN :
        LET q    == [req[r] EXCEPT !.lookups = @ + 1, !.lookupFailed = ~ok]
            user == IF ok THEN getUserByEmail(q.email) ELSE Null
            path == Verify(user.password, q.oldPassword)
        IN  req' = [req EXCEPT ![r] =
                IF ~ok
                THEN ErrorResponse([q EXCEPT !.user = user], StoreError, 401, "Invalid email or password")
                ELSE IF ~user.found
                THEN Answer([q EXCEPT !.user = user], 401, "Invalid email or password")
                ELSE IF path = "rejected"
                THEN Answer([q EXCEPT !.user = user, !.path = path], 401, "Invalid email or password")
                ELSE IF path = "hashed"
                THEN Answer([q EXCEPT !.user = user, !.path = path], 200, "Login successful")
                ELSE [q EXCEPT !.user = user, !.path = path, !.pc = "write", !.writes = @ + 1,
                               !.patch = LoginPatch(user, q.oldPassword)]]
    /\ UNCHANGED <<rows, started, lastWrite, migrationFailures, failedReset, form, flow>>

\* a login that fails when its write-back fails
LoginWriteStrict(r) ==
    /\ req[r].handler = "login" /\ req[r].pc = "write"
    /\ \E ok \in BOOLEAN :
        IF ok
        THEN /\ rows' = PatchRow(req[r].patch.id, req[r].patch.password)
             /\ lastWrite' = r
             /\ req' = [req EXCEPT ![r] = Answer(@, 200, "Login successful")]
             /\ UNCHANGED migrationFailures
        ELSE /\ req' = [req EXCEPT ![r] =
                    Answer([@ EXCEPT !.writeFailed = TRUE], 500, "Internal server error")]
             /\ migrationFailures' = migrationFailures + 1
             /\ UNCHANGED <<rows, lastWrite>>
    /\ UNCHANGED <<started, failedReset, form, flow>>

\* a login that issues its write-back again when the patch fails
LoginWriteRetry(r) ==
    /\ req[r].handler = "login" /\ req[r].pc = "write"
    /\ \E ok \in BOOLEAN :
        IF ok
        THEN /\ rows' = PatchRow(req[r].patch.id, req[r].patch.password)
             /\ lastWrite' = r
             /\ req' = [req EXCEPT ![r] = Answer(@, 200, "Login successful")]
             /\ UNCHANGED migrationFailures
        ELSE /\ req' = [req EXCEPT ![r] =
                    IF @.writes < 2
                    THEN [@ EXCEPT !.writeFailed = TRUE, !.writes = @ + 1]
                    ELSE Answer([@ EXCEPT !.writeFailed = TRUE], 200, "Login successful")]
             /\ migrationFailures' = IF req[r].writes < 2 THEN migrationFailures
                                     ELSE migrationFailures + 1
             /\ UNCHANGED <<rows, lastWrite>>
    /\ UNCHANGED <<started, failedReset, form, flow>>

\* the patch returns or throws; the error is caught and the login goes on
LoginWrite(r) ==
    /\ req[r].handler = "login" /\ req[r].pc = "write"
    /\ \E ok \in BOOLEAN :
        IF ok
        THEN /\ rows' = PatchRow(req[r].patch.id, req[r].patch.password)
             /\ lastWrite' = r
             /\ req' = [req EXCEPT ![r] = Answer(@, 200, "Login successful")]
             /\ UNCHANGED migrationFailures
        ELSE /\ req' = [req EXCEPT ![r] =
                    Answer([@ EXCEPT !.writeFailed = TRUE], 200, "Login successful")]
             /\ migrationFailures' = migrationFailures + 1
             /\ UNCHANGED <<rows, lastWrite>>
    /\ UNCHANGED <<started, failedReset, form, flow>>

(***************************************************************************)
(* The specification                                                       *)
(***************************************************************************)
Next ==
    \E r \in Slots :
        \/ IndexResetReceive(r)
        \/ IndexResetLookup(r)
        \/ IndexResetWrite(r)
        \/ IndexChangeReceive(r)
        \/ IndexChangeLookup(r)
        \/ IndexChangeWrite(r)
        \/ ServerlessResetReceive(r)
        \/ ServerlessResetLookup(r)
        \/ ServerlessResetWrite(r)
        \/ AuthResetReceive(r)
        \/ AuthResetLookup(r)
        \/ AuthResetWrite(r)
        \/ LoginReceive(r)
        \/ LoginLookup(r)
        \/ LoginWrite(r)

Spec == Init /\ [][Next]_vars

\* the store call that the request in slot r waits for returns or fails
StoreReturns(r) ==
    \/ IndexResetLookup(r) \/ IndexResetWrite(r)
    \/ IndexChangeLookup(r) \/ IndexChangeWrite(r)
    \/ ServerlessResetLookup(r) \/ ServerlessResetWrite(r)
    \/ AuthResetLookup(r) \/ AuthResetWrite(r)
    \/ LoginLookup(r) \/ LoginWrite(r)

\* every awaited store call eventually returns or fails
FairSpec == Spec /\ \A r \in Slots : WF_vars(StoreReturns(r))

TypeOK ==
    /\ started \in 0..MaxRequests
    /\ lastWrite \in Slots \cup {0}
    /\ migrationFailures \in 0..MaxRequests
    /\ failedReset.handler \in Handlers \cup {"none"}
    /\ \A r \in Slots : req[r].pc \in {"idle", "lookup", "write", "done"}

(***************************************************************************)
(* The specification of the browser client                                 *)
(***************************************************************************)
\* the page is opened with or without a token in its URL
ClientInit ==
    /\ rows = [id \in RowIds |-> [email |-> RowEmail, name |-> "Test User",
                                  password |-> OldPassword]]
    /\ req = [r \in Slots |-> Idle]
    /\ started = 0
    /\ lastWrite = 0
    /\ migrationFailures = 0
    /\ failedReset = NoReset
    /\ form \in {[NoForm EXCEPT !.url = url] : url \in Tokens \cup {NoToken}}
    /\ flow = NoFlow

ClientNext ==
    \/ DOMContentLoaded
    \/ handleRequestSubmit
    \/ RequestReturns
    \/ handleVerifySubmit
    \/ VerifyReturns
    \/ BackToRequest
    \/ handleConfirmSubmit
    \/ ConfirmReturns
    \/ CompleteStart
    \/ CompleteVerifyReturns
    \/ CompleteConfirmReturns
    \/ CompleteAgain

ClientSpec == ClientInit /\ [][ClientNext]_vars

(***************************************************************************)
(* Vocabulary of the properties                                            *)
(***************************************************************************)
\* the reset and change handlers that read an old or current password
VerifyingResets == {"indexReset", "indexChange", "serverlessReset"}

\* every reset and change entry point that works on the store
ResetHandlers == VerifyingResets \cup {"authReset"}

\* the handlers that check a credential
VerifyingHandlers == VerifyingResets \cup {"login"}

\* the lookup of request q has returned a row
LookedUp(q) == q.lookups = 1 /\ q.user.found

\* the answer that rejects a credential
RejectedAnswer(q) ==
    /\ q.pc = "done"
    /\ \/ q.status = 400 /\ q.text \in {"Invalid old password", "Invalid current password"}
       \/ q.status = 401 /\ q.text = "Invalid email or password"

\* the handler went on past the verification
WentOn(q) == q.pc = "write" \/ (q.pc = "done" /\ q.status \in {200, 500})

\* the value of the password column of the row request q looked up
Stored(q) == rows[q.user.id].password

\* slot r takes the step that answers the request it holds
Answers(r) == InFlight(r) /\ req'[r].pc = "done"

(***************************************************************************)
(* C1  In every handler that checks a credential the decision for the      *)
(* stored value s and the presented password p is: accepted through the    *)
(* hashed path when s = digest(p), otherwise accepted through the          *)
(* plaintext path when s = p, otherwise rejected; the request is rejected  *)
(* exactly when s differs from both.                                       *)
(***************************************************************************)
C1_VerifyDecision ==
    \A r \in Slots :
        LET q == req[r]
            s == q.user.password
            p == q.oldPassword
        IN  (q.handler \in VerifyingHandlers /\ LookedUp(q)) =>
              /\ (s = hashPassword(p)) => (q.path = "hashed" /\ WentOn(q))
              /\ (s # hashPassword(p) /\ s = p) => (q.path = "plain" /\ WentOn(q))
              /\ (s # hashPassword(p) /\ s # p) <=> RejectedAnswer(q)

\* one request accepted through the plaintext path is waiting for its write
\* while another one has been rejected
C1_Witness ==
    \E r, t \in Slots :
        /\ req[r].handler = "login" /\ req[r].path = "plain" /\ req[r].pc = "write"
        /\ req[r].oldPassword = OldPassword
        /\ req[t].handler = "indexReset" /\ LookedUp(req[t]) /\ RejectedAnswer(req[t])
        /\ req[t].oldPassword = Wrong

(***************************************************************************)
(* C2  The stored password is changed by a reset or change request only    *)
(* if that request looked the record up and the presented old password     *)
(* was accepted by the verification: in every reset and change entry       *)
(* point a write is issued only after a lookup that found the row and a    *)
(* verification that accepted the old password.                            *)
(***************************************************************************)
C2_WriteOnlyAfterVerification ==
    \A r \in Slots :
        LET q == req[r]
        IN  (q.handler \in ResetHandlers /\ q.writes > 0) =>
              /\ LookedUp(q)
              /\ \/ q.user.password = hashPassword(q.oldPassword)
                 \/ q.user.password = q.oldPassword

(***************************************************************************)
(* C3  As stated: after any request in which the verification of a         *)
(* presented password p succeeded has completed with success, the stored   *)
(* value of the record equals digest(p).                                   *)
(***************************************************************************)
C3_StoredIsDigestOfPresented ==
    \A r \in Slots :
        LET q == req[r]
        IN  (q.handler \in VerifyingHandlers /\ q.pc = "done" /\ q.status = 200
             /\ LookedUp(q) /\ q.path \in {"hashed", "plain"}) =>
              Stored(q) = hashPassword(q.oldPassword)

(***************************************************************************)
(* C3  As amended: when a request in which the verification of a presented *)
(* password p succeeded answers, the stored value is digest(p) for a login *)
(* whose hashed comparison matched or whose write-back succeeded, and      *)
(* digest(newPassword) for a reset or change whose write succeeded; when   *)
(* the write failed the stored value is left as it was, so a plaintext     *)
(* record stays plaintext.                                                 *)
(***************************************************************************)
C3_StoredAfterVerification ==
    [][\A r \in Slots :
        (Answers(r) /\ req'[r].handler \in VerifyingHandlers
         /\ req'[r].path \in {"hashed", "plain"}) =>
            IF req'[r].writeFailed THEN rows' = rows
            ELSE IF req'[r].handler = "login"
            THEN rows'[req'[r].user.id].password = hashPassword(req'[r].oldPassword)
            ELSE rows'[req'[r].user.id].password = hashPassword(req'[r].newPassword)]_vars

\* a login accepted through the plaintext path has answered 200 after its
\* write-back failed, and the record is still the plaintext
C3_Witness ==
    \E r \in Slots :
        /\ req[r].handler = "login" /\ req[r].pc = "done" /\ req[r].status = 200
        /\ req[r].path = "plain" /\ req[r].writeFailed
        /\ req[r].oldPassword = OldPassword
        /\ Stored(req[r]) = OldPassword

(***************************************************************************)
(* C4  Once a record has been migrated (its stored value is the digest of  *)
(* a password), no request on it is accepted through the plaintext         *)
(* comparison, no login issues a write-back for it, and every accepted     *)
(* presentation p satisfies digest(p) = stored value.                      *)
(***************************************************************************)
\* the value is the digest of one of the passwords of the model
IsDigest(v) == \E p \in {OldPassword, NewPassword, Wrong} : v = hashPassword(p)

C4_NoPlaintextAfterMigration ==
    \A r \in Slots :
        LET q == req[r]
        IN  (q.handler \in VerifyingHandlers /\ LookedUp(q) /\ IsDigest(q.user.password)) =>
              /\ q.path # "plain"
              /\ (q.handler = "login") => (q.writes = 0)
              /\ WentOn(q) => (hashPassword(q.oldPassword) = q.user.password)

(***************************************************************************)
(* C5  Whenever login accepts a presented password p only through the      *)
(* plaintext comparison, it issues exactly one write-back of digest(p) to  *)
(* the password field of the row it looked up, and answers only after the  *)
(* attempt has finished; when the hashed comparison matched it issues no   *)
(* write.                                                                  *)
(***************************************************************************)
C5_LoginWriteBack ==
    \A r \in Slots :
        LET q == req[r]
            s == q.user.password
            p == q.oldPassword
        IN  (q.handler = "login" /\ LookedUp(q)) =>
              /\ (s # hashPassword(p) /\ s = p) =>
                    /\ q.writes = 1
                    /\ q.patch = [id |-> q.user.id, password |-> hashPassword(p)]
                    /\ q.pc \in {"write", "done"}
                    /\ (q.pc = "write") => (q.status = 0)
                    /\ (q.pc = "done") => (q.status = 200 /\ q.text = "Login successful")
              /\ (s = hashPassword(p)) =>
                    (q.writes = 0 /\ q.pc = "done" /\ q.status = 200)

\* a login of the legacy plaintext password waits for its write-back, no
\* answer sent yet
C5_Witness ==
    \E r \in Slots :
        /\ req[r].handler = "login" /\ req[r].pc = "write" /\ req[r].status = 0
        /\ req[r].user.password = OldPassword /\ req[r].oldPassword = OldPassword
        /\ req[r].writes = 1

(***************************************************************************)
(* C6  If the migration write-back of a login accepted through the         *)
(* plaintext path fails, the login still answers 200 and the stored value  *)
(* is left as it was; a login that then finds the plaintext p stored and   *)
(* presents p is again accepted through the plaintext path and issues the  *)
(* write-back again; a write-back that succeeds leaves digest(p) stored.   *)
(***************************************************************************)
C6_MigrationRetried ==
    [][\A r \in Slots :
        /\ (req[r].handler = "login" /\ req[r].pc = "write" /\ req'[r].pc = "done") =>
              /\ req'[r].status = 200 /\ req'[r].text = "Login successful"
              /\ req'[r].writeFailed => rows' = rows
              /\ ~req'[r].writeFailed =>
                    rows'[req[r].user.id].password = hashPassword(req[r].oldPassword)
        /\ (req[r].handler = "login" /\ req[r].pc = "lookup" /\ req'[r].user.found
            /\ req'[r].user.password = req[r].oldPassword
            /\ req[r].oldPassword # hashPassword(req[r].oldPassword)) =>
              /\ req'[r].pc = "write" /\ req'[r].writes = 1
              /\ req'[r].patch.password = hashPassword(req[r].oldPassword)]_vars

\* after a login whose write-back failed, the next login of the same
\* password, the only request then in flight, was accepted through the
\* plaintext path and its write-back left the digest stored
C6_Witness ==
    /\ migrationFailures = 1
    /\ req[2] = Idle
    /\ req[1].handler = "login" /\ req[1].pc = "done" /\ req[1].status = 200
    /\ req[1].user.password = OldPassword /\ req[1].oldPassword = OldPassword
    /\ req[1].writes = 1 /\ ~req[1].writeFailed
    /\ rows["1"].password = hashPassword(OldPassword)

C8_RejectedLeavesStore ==
    [][\A r \in Slots :
        (req[r].handler \in VerifyingResets /\ req[r].pc = "lookup" /\ req'[r].user.found
         /\ req'[r].user.password # hashPassword(req[r].oldPassword)
         /\ req'[r].user.password # req[r].oldPassword) =>
            /\ req'[r].pc = "done" /\ req'[r].status = 400
            /\ req'[r].writes = 0
            /\ rows' = rows]_vars

\* a reset with a wrong old password on a migrated record was answered 400
C8_Witness ==
    \E r \in Slots :
        /\ req[r].handler = "serverlessReset" /\ req[r].pc = "done" /\ req[r].status = 400
        /\ req[r].user.password = hashPassword(OldPassword) /\ req[r].oldPassword = Wrong
        /\ req[r].writes = 0
        /\ rows["1"].password = hashPassword(OldPassword)

(***************************************************************************)
(* C9  In the reset and the change flow a request that lacks the email,    *)
(* the old or current password or newPassword, or whose newPassword has    *)
(* fewer than 8 characters, is answered 400, and neither a lookup nor a    *)
(* write is issued for it.                                                 *)
(***************************************************************************)
C9_InvalidNeverReachesStore ==
    \A r \in Slots :
        LET q == req[r]
        IN  (q.handler \in VerifyingResets /\ q.method = "POST"
             /\ (q.email = "" \/ q.oldPassword = Empty \/ q.newPassword = Empty
                 \/ Len(q.newPassword) < 8)) =>
              /\ (q.pc = "done") => (q.status = 400)
              /\ q.lookups = 0 /\ q.writes = 0

(***************************************************************************)
(* C10  When the lookup finds no record for the email, a reset or change   *)
(* request is answered 404 and no write is attempted.                      *)
(***************************************************************************)
C10_NotFoundIs404 ==
    \A r \in Slots :
        LET q == req[r]
        IN  (q.handler \in ResetHandlers /\ q.lookups = 1 /\ ~q.lookupFailed
             /\ ~q.user.found) =>
              (q.pc = "done" /\ q.status = 404 /\ q.writes = 0)

(***************************************************************************)
(* C11  When the store lookup fails, or the password write of a reset or   *)
(* change fails, the request is answered 500 and never 404, 400 or 200,    *)
(* and the failed call is not issued again.                                *)
(***************************************************************************)
C11_StoreFailureIs500 ==
    \A r \in Slots :
        LET q == req[r]
        IN  (q.pc = "done"
             /\ (q.lookupFailed \/ (q.writeFailed /\ q.handler \in ResetHandlers))) =>
              /\ q.status = 500
              /\ q.lookups <= 1 /\ q.writes <= 1

(***************************************************************************)
(* C12  For a record stored as plaintext, when the old password of a reset *)
(* request verifies but the write to the store fails, the response is 200, *)
(* as the claim states it.                                                 *)
(***************************************************************************)
C12_FailedWriteStill200 ==
    \A r \in Slots :
        LET q == req[r]
        IN  (q.handler \in VerifyingResets /\ q.pc = "done" /\ q.path = "plain"
             /\ q.writeFailed) =>
              q.status = 200

\* slot r holds a request equal to the reset whose write failed last
RetriesFailedReset(r) ==
    /\ req[r].handler \in VerifyingResets
    /\ failedReset = Body(req[r])

\* the step by which the write of a verified reset fails
FailedWriteStep(r) ==
    /\ req[r].handler \in VerifyingResets /\ req[r].pc = "write"
    /\ req'[r].pc = "done" /\ req'[r].writeFailed

\* C12 as the handlers behave: the failed write of a verified reset is
\* answered 500 and leaves the stored value as it was; an identical request
\* sent after it passes the verification against the plaintext value and,
\* when its write succeeds, is answered 200 with digest(newPassword) stored.
C12_FailedWriteIs500ThenRetrySucceeds ==
    [][\A r \in Slots :
        /\ FailedWriteStep(r) =>
              /\ req'[r].status = 500
              /\ rows' = rows
        /\ (RetriesFailedReset(r) /\ req[r].pc = "lookup" /\ req'[r].lookups = 1
             /\ req'[r].user.found /\ req'[r].user.password = req[r].oldPassword) =>
              (req'[r].pc = "write" /\ req'[r].path = "plain")
        /\ (RetriesFailedReset(r) /\ req[r].pc = "write" /\ req'[r].pc = "done"
             /\ ~req'[r].writeFailed) =>
              /\ req'[r].status = 200
              /\ rows'[req[r].user.id].password = hashPassword(req[r].newPassword)]_vars

\* a reset failed at its write on the plaintext record, and the same request
\* sent again after that answer has been answered 200
C12_Witness ==
    \E r \in Slots :
        /\ started = 2 /\ \A t \in Slots \ {r} : req[t].pc = "idle"
        /\ RetriesFailedReset(r)
        /\ req[r].pc = "done" /\ req[r].status = 200 /\ req[r].path = "plain"
        /\ req[r].user.password = req[r].oldPassword
        /\ Stored(req[r]) = hashPassword(req[r].newPassword)

(***************************************************************************)
(* C13  When two reset requests for the same email, both presenting the    *)
(* valid old password, run concurrently, then under every interleaving of  *)
(* their lookups and writes the stored value is the digest of the new      *)
(* password of the request whose write reached the store last, and is at   *)
(* every moment the initial value or the digest of one of the two new      *)
(* passwords.                                                              *)
(***************************************************************************)
\* the two slots hold the only two requests sent so far, both resets for the
\* row's email with the valid old password; the second was received while
\* the first was in flight
ConcurrentResets ==
    /\ started = 2
    /\ \A r \in Slots :
        /\ req[r].handler \in VerifyingResets /\ req[r].method = "POST"
        /\ req[r].email = RowEmail /\ req[r].oldPassword = OldPassword

C13_LastWriteWins ==
    /\ [](ConcurrentResets =>
            \A id \in RowIds :
                /\ rows[id].password \in
                      InitialStored \cup {hashPassword(req[r].newPassword) : r \in Slots}
                /\ (lastWrite = 0) => (rows[id].password \in InitialStored)
                /\ (lastWrite # 0) =>
                      (rows[id].password = hashPassword(req[lastWrite].newPassword)))
    /\ [][(ConcurrentResets /\ rows' # rows) =>
            \E r \in Slots :
                /\ req[r].pc = "write" /\ req'[r].pc = "done" /\ req'[r].status = 200
                /\ lastWrite' = r
                /\ rows' = [rows EXCEPT ![req[r].user.id].password =
                                            hashPassword(req[r].newPassword)]]_vars

\* both resets were answered 200 with different new passwords, and the write
\* of the request received first reached the store last
C13_Witness ==
    /\ ConcurrentResets
    /\ \A r \in Slots : req[r].pc = "done" /\ req[r].status = 200
    /\ req[1].newPassword # req[2].newPassword
    /\ lastWrite = 1
    /\ \A id \in RowIds : rows[id].password = hashPassword(req[1].newPassword)

(***************************************************************************)
(* C14  Two concurrent logins presenting the same password p against a     *)
(* record stored as plaintext p both answer success under every            *)
(* interleaving, each write-back stores digest(p), and applying the        *)
(* write-back twice leaves the same stored value as applying it once.      *)
(***************************************************************************)
\* the two slots hold the only two requests sent so far, both logins for the
\* row's email with the same password, and a lookup has returned the record
\* with that password stored as plaintext
ConcurrentLogins ==
    /\ started = 2
    /\ \A r \in Slots :
        /\ req[r].handler = "login" /\ req[r].method = "POST"
        /\ req[r].email = RowEmail /\ ~req[r].lookupFailed
    /\ req[1].oldPassword = req[2].oldPassword
    /\ \E r \in Slots : LookedUp(req[r]) /\ req[r].user.password = req[r].oldPassword

C14_ConcurrentMigration ==
    /\ [](ConcurrentLogins =>
            \A r \in Slots :
                LET q == req[r]
                IN  /\ (q.pc = "done") => (q.status = 200 /\ q.text = "Login successful")
                    /\ (q.writes = 1) => (q.patch.password = hashPassword(q.oldPassword))
                    /\ \A id \in RowIds :
                          rows[id].password \in {q.oldPassword, hashPassword(q.oldPassword)})
    /\ [][\A r \in Slots :
            (ConcurrentLogins /\ req[r].pc = "write" /\ lastWrite # 0 /\ lastWrite # r
             /\ lastWrite' = r) =>
              rows' = rows]_vars

\* both logins saw the plaintext and both write-backs were applied
C14_Witness ==
    /\ ConcurrentLogins
    /\ \A r \in Slots :
        /\ req[r].pc = "done" /\ req[r].status = 200
        /\ req[r].path = "plain" /\ req[r].writes = 1 /\ ~req[r].writeFailed
        /\ Stored(req[r]) = hashPassword(req[r].oldPassword)

(***************************************************************************)
(* C15  Every error response of the reset, change and login handlers       *)
(* carries an error text that is one of the literal messages of the        *)
(* handler; the text of a caught exception or of the store's failure is    *)
(* never placed in any response.                                           *)
(***************************************************************************)
\* the literals of the error responses of each handler
ErrorMessages(handler) ==
    IF handler = "indexReset"
    THEN {"Email, old password, and new password are required",
          "Password must be at least 8 characters long", "User not found",
          "Invalid old password", "Internal server error"}
    ELSE IF handler = "indexChange"
    THEN {"Email, current password, and new password are required",
          "Password must be at least 8 characters long", "User not found",
          "Invalid current password", "Internal server error"}
    ELSE IF handler = "serverlessReset"
    THEN {"Method not allowed", "Email, current Password, and new Password are required",
          "User not found", "Invalid current password", "Failed to update password",
          "Internal server error"}
    ELSE IF handler = "authReset"
    THEN {"Method not allowed", "Email and newPassword are required", "User not found",
          "Failed to update password", "Internal server error"}
    ELSE {"Method not allowed", "Email and password are required",
          "Invalid email or password", "Internal server error"}

C15_ErrorTextIsLiteral ==
    \A r \in Slots :
        LET q == req[r]
        IN  (q.pc = "done") =>
              /\ q.text # StoreError
              /\ (q.status >= 400) => (q.text \in ErrorMessages(q.handler))

\* a store call failed, the handler caught the error and answered with its
\* own literal
C15_Witness ==
    \E r \in Slots :
        /\ req[r].pc = "done" /\ req[r].status = 500
        /\ req[r].lookupFailed \/ req[r].writeFailed
        /\ req[r].text \in {"Internal server error", "Failed to update password"}

(***************************************************************************)
(* C16  hashPassword is total over all strings including the empty string  *)
(* and, at every call site, the digest that is written to the store is     *)
(* rendered as an unsigned text: it is not empty and has no minus sign.    *)
(***************************************************************************)
\* the character code of "-"
Minus == <<45>>

C16_DigestIsUnsigned ==
    \A r \in Slots :
        LET q == req[r]
        IN  (q.writes = 1) =>
              /\ Len(q.patch.password) >= 1
              /\ SubSeq(q.patch.password, 1, 1) # Minus

(***************************************************************************)
(* C17  Every write that a handler issues to the store is a patch of the   *)
(* row id returned by that same request's lookup, carries only the         *)
(* password field, and its value is a digest computed by the handler's     *)
(* hashPassword (never the presented plaintext); no handler creates or     *)
(* deletes a row or changes email or name.                                 *)
(***************************************************************************)
\* the digest that the handler of request q computes for its write
DigestWritten(q) ==
    IF q.handler = "login" THEN hashPassword(q.oldPassword)
    ELSE IF q.handler = "authReset" THEN hashPasswordDecimal(q.newPassword)
    ELSE hashPassword(q.newPassword)

C17_WritesArePasswordPatches ==
    /\ [](\A r \in Slots :
            LET q == req[r]
            IN  (q.writes = 1) =>
                  /\ q.user.found /\ q.patch.id = q.user.id
                  /\ DOMAIN q.patch = {"id", "password"}
                  /\ q.patch.password = DigestWritten(q)
                  /\ q.patch.password \notin {q.oldPassword, q.newPassword})
    /\ [][/\ DOMAIN rows' = DOMAIN rows
          /\ \A id \in DOMAIN rows :
                /\ rows'[id].email = rows[id].email
                /\ rows'[id].name = rows[id].name
                /\ (rows'[id].password # rows[id].password) =>
                      \E r \in Slots :
                          /\ req[r].pc = "write" /\ req'[r].pc = "done"
                          /\ req[r].patch.id = id
                          /\ rows'[id].password = req[r].patch.password]_vars

\* a write has changed the password of the row the request looked up, and
\* the row still has its email and name
C17_Witness ==
    \E r \in Slots :
        /\ req[r].pc = "done" /\ req[r].writes = 1 /\ ~req[r].writeFailed
        /\ lastWrite = r
        /\ Stored(req[r]) = DigestWritten(req[r])
        /\ Stored(req[r]) # req[r].user.password
        /\ rows[req[r].user.id].email = req[r].user.email
        /\ rows[req[r].user.id].name = req[r].user.name

(***************************************************************************)
(* C18  Within one request no store call is retried: a reset, change or    *)
(* login request issues at most one lookup and at most one password write, *)
(* and after a failed lookup or write the handler has answered without     *)
(* issuing the call again or any further call.                             *)
(***************************************************************************)
C18_NoRetryWithinRequest ==
    \A r \in Slots :
        LET q == req[r]
        IN  /\ q.lookups <= 1 /\ q.writes <= 1
            /\ q.lookupFailed => (q.pc = "done" /\ q.lookups = 1 /\ q.writes = 0)
            /\ q.writeFailed => (q.pc = "done" /\ q.lookups = 1 /\ q.writes = 1)

\* the write-back of a login has failed: the login has answered after one
\* lookup and one write, and the record is still the plaintext
C18_Witness ==
    \E r \in Slots :
        /\ req[r].handler = "login" /\ req[r].pc = "done"
        /\ req[r].writeFailed /\ req[r].lookups = 1 /\ req[r].writes = 1
        /\ Stored(req[r]) = req[r].oldPassword

(***************************************************************************)
(* C19  Provided every store call eventually returns or fails, every       *)
(* request to a reset, change or login handler eventually sends exactly    *)
(* one response and ends in exactly one terminal outcome (success,         *)
(* rejected credential, not found, validation error or storage error); no  *)
(* path sends two responses or none.                                       *)
(***************************************************************************)
\* the terminal outcomes that the response of request q shows; a request
\* refused for its method counts as a validation error
Outcomes(q) ==
    {o \in {"success", "rejected", "notFound", "validationError", "storageError"} :
        \/ o = "success" /\ q.status = 200
        \/ o = "rejected" /\ RejectedAnswer(q)
        \/ o = "notFound" /\ q.status \in {400, 404} /\ q.text = "User not found"
        \/ o = "validationError" /\ q.status \in {400, 405} /\ q.lookups = 0
        \/ o = "storageError" /\ q.status = 500}

C19_ExactlyOneResponse ==
    /\ [](\A r \in Slots :
            LET q == req[r]
            IN  /\ q.pc \in {"idle", "lookup", "write", "done"}
                /\ (q.pc # "done") => (q.responses = 0)
                /\ (q.pc = "done") => (q.responses = 1 /\ Cardinality(Outcomes(q)) = 1))
    /\ \A r \in Slots : InFlight(r) ~> (req[r].pc = "done")

\* a request that went through a lookup and a write has sent its one
\* response, while another request is waiting for the store
C19_Witness ==
    \E r, t \in Slots :
        /\ req[r].pc = "done" /\ req[r].lookups = 1 /\ req[r].writes = 1
        /\ req[r].responses = 1
        /\ t # r /\ InFlight(t)

(***************************************************************************)
(* C20  Round trip across handlers: after a reset or change entry point    *)
(* has answered success for a new password n, and with no other write in   *)
(* between, a login presenting n for the same email that reads the record  *)
(* is accepted.                                                            *)
(***************************************************************************)
C20_LoginAcceptsResetPassword ==
    \A r, t \in Slots :
        (/\ req[r].handler \in ResetHandlers
         /\ req[r].pc = "done" /\ req[r].status = 200 /\ lastWrite = r
         /\ req[t].handler = "login" /\ req[t].email = req[r].email
         /\ req[t].oldPassword = req[r].newPassword
         /\ LookedUp(req[t]) /\ req[t].user.password = Stored(req[r])) =>
          /\ req[t].path # "rejected"
          /\ (req[t].pc = "done") => (req[t].status = 200)

(***************************************************************************)
(* C21  A login's migration write-back never overwrites a password set by  *)
(* a reset or change: once a reset or change has answered success for new  *)
(* password n, the stored value remains the digest of n until another      *)
(* reset or change succeeds, even when a login that read the old plaintext *)
(* before the reset writes its digest afterwards.                          *)
(***************************************************************************)
C21_MigrationKeepsResetPassword ==
    \A r, t \in Slots :
        (/\ started = 2
         /\ req[r].handler \in ResetHandlers
         /\ req[r].pc = "done" /\ req[r].status = 200
         /\ req[r].writes = 1 /\ ~req[r].writeFailed
         /\ req[t].handler = "login"
         /\ LookedUp(req[t]) /\ req[t].user.password = OldPassword) =>
          Stored(req[r]) = DigestWritten(req[r])

(***************************************************************************)
(* C22  The login handler's response for an email with no record is        *)
(* identical in status (401) and body to its response for an existing      *)
(* record with a wrong password: of two logins that are not accepted, one  *)
(* for an unknown email and one for a known email, the responses are       *)
(* equal.                                                                  *)
(***************************************************************************)
\* the login in slot r has read the store and has not been accepted
LoginRefused(r) ==
    /\ req[r].handler = "login" /\ req[r].method = "POST"
    /\ req[r].pc = "done" /\ req[r].lookups = 1 /\ ~req[r].lookupFailed
    /\ req[r].status # 200

C22_UnknownEmailLooksLikeWrongPassword ==
    \A r, t \in Slots :
        (LoginRefused(r) /\ LoginRefused(t) /\ ~req[r].user.found /\ req[t].user.found) =>
          /\ req[r].status = 401
          /\ req[r].status = req[t].status
          /\ req[r].text = req[t].text

\* one login for an unknown email and one with a wrong password for the
\* known email have both been answered
C22_Witness ==
    \E r, t \in Slots :
        /\ LoginRefused(r) /\ LoginRefused(t)
        /\ req[r].email = OtherEmail /\ ~req[r].user.found
        /\ req[t].email = RowEmail /\ req[t].user.found /\ req[t].path = "rejected"

(***************************************************************************)
(* C23  The browser form KennoPasswordResetForm is in step confirm, with   *)
(* a resetToken set, only after verifyResetToken returned success for that *)
(* token.                                                                  *)
(***************************************************************************)
C23_ConfirmOnlyAfterVerify ==
    (form.currentStep = "confirm") =>
        (form.resetToken # NoToken /\ form.resetToken \in form.verified)

(***************************************************************************)
(* C24  completePasswordReset sends the confirm request only after the     *)
(* verify request returned success, and returns the failed verification    *)
(* result without contacting the confirm endpoint otherwise; each client   *)
(* method resolves to an object with a boolean success field and never     *)
(* rejects, whatever the outcome of its fetch.                             *)
(***************************************************************************)
\* result is the settled value of a promise that resolved with a boolean
\* success field
ResolvedWithSuccess(result) ==
    result.settled = "resolved" /\ result.success \in BOOLEAN

C24_ConfirmOnlyAfterVerifiedToken ==
    /\ \A outcome \in FetchOutcomes :
        /\ ResolvedWithSuccess(requestPasswordReset(outcome))
        /\ ResolvedWithSuccess(verifyResetToken(outcome))
        /\ ResolvedWithSuccess(confirmPasswordReset(outcome))
    /\ flow.confirmSent =>
          (flow.verifySent /\ ResolvedWithSuccess(flow.verifyResult)
           /\ flow.verifyResult.success)
    /\ (flow.pc \in {"confirm", "returned"}) => ResolvedWithSuccess(flow.verifyResult)
    /\ (flow.pc = "returned") =>
          /\ ResolvedWithSuccess(flow.result)
          /\ ~flow.verifyResult.success => (~flow.confirmSent /\ flow.result = flow.verifyResult)

\* the verification failed and completePasswordReset has returned its result
\* without a confirm request
C24_Witness ==
    /\ flow.pc = "returned" /\ flow.verifySent /\ ~flow.confirmSent
    /\ ~flow.result.success /\ flow.result.message = "Failed to verify reset token"

====
